---- MODULE Spec2Model ----
(***************************************************************************)
(* A model of ase/ga/bulk_startgenerator.py: the StartGenerator class      *)
(* (constructor and get_new_candidate) and random_pos.                     *)
(*                                                                         *)
(* Numbers.  Lengths are integers in 1/100 Angstrom.  A random() draw is   *)
(* a numerator k over 4 (the value k/4).  The quantities the code raises   *)
(* to the power 0.33 (volumes and sampled cell entries) are kept as        *)
(* base-2 logarithms in units of 1/10000, so that x**0.33 is the exact     *)
(* integer operation log * 33 / 100; Exp2c turns a logarithm into a        *)
(* length.  The code is Python 2: "/" between integers is floor division.  *)
(* A NaN produced by numpy (0/0, negative ** 0.33) is the flag nan.        *)
(***************************************************************************)
EXTENDS Integers, Sequences, FiniteSets, TLC

\* ---------------------------------------------------------------- bounds
\* Largest repeat count of a block in the configurations explored.
MaxCount == 2
\* Calls of get_new_candidate followed on one object beyond the first.
MaxCalls == 1
\* Periodic images -ImgRange..ImgRange per axis examined by a distance test.
ImgRange == 1

\* ------------------------------------------------------- program constants
\* The exponent 0.33 = PowNum / PowDen of lines 130 and 139.
PowNum == 33
PowDen == 100

\* ------------------------------------------------------------ arithmetic
Abs(x) == IF x < 0 THEN -x ELSE x
Sgn(x) == IF x < 0 THEN -1 ELSE IF x = 0 THEN 0 ELSE 1

RECURSIVE Pow2(_)
Pow2(n) == IF n <= 0 THEN 1 ELSE 2 * Pow2(n - 1)

\* log2 of a positive power of two.
RECURSIVE Log2(_)
Log2(x) == IF x <= 1 THEN 0 ELSE 1 + Log2(x \div 2)

\* 100 * 2^(e/10000), rounded down: the length, in 1/100 Angstrom, whose
\* base-2 logarithm is e/10000.  The mantissa 2^f, 0 <= f < 1, is the
\* quadratic 1 + 0.6565 f + 0.3435 f^2 (exact at f = 0 and f = 1).
Exp2c(e) ==
  LET q == e \div 10000
      f == e % 10000
      m == 100000 + (6565 * f) \div 1000 + (((f * f) \div 1000) * 3435) \div 10000
  IN  IF q >= 0 THEN (m * Pow2(q)) \div 1000 ELSE m \div (1000 * Pow2(-q))

CeilDiv(a, b) == (a + b - 1) \div b

RECURSIVE SumSeq(_)
SumSeq(s) == IF s = <<>> THEN 0 ELSE Head(s) + SumSeq(Tail(s))

RECURSIVE ProdSeq(_)
ProdSeq(s) == IF s = <<>> THEN 1 ELSE Head(s) * ProdSeq(Tail(s))

RECURSIVE MaxSet(_)
MaxSet(S) == LET x == CHOOSE y \in S : TRUE
             IN  IF S = {x} THEN x
                 ELSE LET m == MaxSet(S \ {x}) IN IF x > m THEN x ELSE m

\* --------------------------------------------------------------- vectors
Vec0 == <<0, 0, 0>>
VAdd(u, v) == <<u[1] + v[1], u[2] + v[2], u[3] + v[3]>>
VSub(u, v) == <<u[1] - v[1], u[2] - v[2], u[3] - v[3]>>
Norm2(v) == v[1] * v[1] + v[2] * v[2] + v[3] * v[3]
ZeroCell == <<Vec0, Vec0, Vec0>>

\* n[1]*cell[1] + n[2]*cell[2] + n[3]*cell[3]: np.dot(n, cell).
LatticeVec(n, c) ==
  <<n[1] * c[1][1] + n[2] * c[2][1] + n[3] * c[3][1],
    n[1] * c[1][2] + n[2] * c[2][2] + n[3] * c[3][2],
    n[1] * c[1][3] + n[2] * c[2][3] + n[3] * c[3][3]>>

\* Mean of a sequence of positions, per component (integer arithmetic).
MeanPos(ps) ==
  <<SumSeq([k \in 1..Len(ps) |-> ps[k][1]]) \div Len(ps),
    SumSeq([k \in 1..Len(ps) |-> ps[k][2]]) \div Len(ps),
    SumSeq([k \in 1..Len(ps) |-> ps[k][3]]) \div Len(ps)>>

\* ------------------------------------------------- collaborators' data
\* Atoms('C'): one carbon atom at the origin.
AtomC == [nums |-> <<6>>, pos |-> <<Vec0>>]
\* molecule('CO'): a carbon and an oxygen atom 1.2 Angstrom apart along z.
MolCO == [nums |-> <<6, 8>>, pos |-> <<Vec0, <<0, 0, 120>>>>]

\* ase.data.atomic_numbers, restricted to the symbols used.
atomic_numbers == [C |-> 6, O |-> 8]

\* ase.build.molecule, restricted to the names used.
molecule(name) == MolCO

\* Covalent radii of C and O, in 1/100 Angstrom (ase.data.covalent_radii).
CovRadius(z) == IF z = 6 THEN 76 ELSE 66

\* ase.ga.utilities.closest_distances_generator: a table with an entry for
\* every ordered pair of the given atomic numbers, the sum of the covalent
\* radii times ratio (ratio given in percent).
closest_distances_generator(numbers, ratio) ==
  [k \in numbers \X numbers |-> (ratio * (CovRadius(k[1]) + CovRadius(k[2]))) \div 100]

\* --------------------------------------------------- constructor arguments
\* blocks: (A, B) tuples, A an Atoms object, an element symbol or a molecule
\* name, B the number of repeating units.
SpecC == [kind |-> "symbol", name |-> "C", atoms |-> AtomC]
SpecCO == [kind |-> "name", name |-> "CO", atoms |-> MolCO]
SpecAtoms == [kind |-> "Atoms", name |-> "", atoms |-> MolCO]
OneBlock(b, c) == <<[block |-> b, count |-> c]>>
TwoBlocks(b1, c1, b2, c2) == <<[block |-> b1, count |-> c1], [block |-> b2, count |-> c2]>>

\* blmin: a dictionary, or a number (a fraction of the covalent bond lengths).
Dict(keys, d) == [isdict |-> TRUE, dict |-> [k \in keys |-> d], ratio |-> 0]
DictFull == Dict({6, 8} \X {6, 8}, 150)
DictNoCross == Dict({<<6, 6>>, <<8, 8>>}, 150)
DictNoSelf == Dict({<<6, 8>>, <<8, 6>>}, 150)
DictWide == Dict({6, 8} \X {6, 8}, 460)
Ratio(percent) == [isdict |-> FALSE, dict |-> << >>, ratio |-> percent]

\* volume: a Python int (isint) or float, in cubic Angstrom.
IntVolume(v) == [v |-> v, isint |-> TRUE]
FloatVolume(v) == [v |-> v, isint |-> FALSE]

\* cellbounds: None (on = FALSE) or a CellBounds instance, here bounds on
\* the lengths of the three cell vectors, in 1/100 Angstrom.
NoBounds == [on |-> FALSE, lo |-> 0, hi |-> 0]
Bounds(lo, hi) == [on |-> TRUE, lo |-> lo, hi |-> hi]

\* cell: None (on = FALSE) or the fixed cell, an array of Python ints
\* (isint) or of floats.
Cubic(a) == <<<<a, 0, 0>>, <<0, a, 0>>, <<0, 0, a>>>>
NoCell == [on |-> FALSE, m |-> ZeroCell, isint |-> FALSE]
FloatCell(m) == [on |-> TRUE, m |-> m, isint |-> FALSE]
IntCell(m) == [on |-> TRUE, m |-> m, isint |-> TRUE]

\* splits: a dict from split tuples to relative weights, as the sequence
\* of its items in the dict's iteration order.
Split1 == <<[split |-> <<1>>, w |-> 1]>>
Split2 == <<[split |-> <<2>>, w |-> 1]>>
Split12 == <<[split |-> <<1>>, w |-> 1], [split |-> <<2>>, w |-> 1]>>
Split22 == <<[split |-> <<2, 2>>, w |-> 1]>>
Split13 == <<[split |-> <<1>>, w |-> 1], [split |-> <<2>>, w |-> 3]>>
SplitZeroFirst == <<[split |-> <<2>>, w |-> 0], [split |-> <<1>>, w |-> 1]>>
SplitZero == <<[split |-> <<1>>, w |-> 0], [split |-> <<2>>, w |-> 0]>>
SplitNeg == <<[split |-> <<1>>, w |-> 2], [split |-> <<2>>, w |-> -1]>>

\* The constructor calls explored.  Base: one kind of block, a complete
\* table, volume 64, the default splits.
Base == [blocks |-> OneBlock(SpecC, MaxCount), blmin |-> DictFull,
         volume |-> IntVolume(64), cellbounds |-> NoBounds, cell |-> NoCell,
         splits |-> Split1]
ConstructorArgs ==
  {[Base EXCEPT !.blocks = OneBlock(SpecC, c), !.splits = s] :
      c \in 1..MaxCount, s \in {Split1, Split2, Split12, Split22}}
  \cup {[Base EXCEPT !.blocks = TwoBlocks(SpecC, MaxCount, SpecCO, MaxCount + 1),
                     !.splits = Split2],
        [Base EXCEPT !.blocks = TwoBlocks(SpecC, 1, SpecAtoms, 1)],
        [Base EXCEPT !.blocks = TwoBlocks(SpecC, 1, SpecCO, 1), !.blmin = DictNoCross],
        [Base EXCEPT !.blocks = TwoBlocks(SpecC, 1, SpecCO, 1), !.blmin = Ratio(100)],
        [Base EXCEPT !.blmin = DictNoSelf],
        [Base EXCEPT !.blmin = DictWide, !.cellbounds = Bounds(300, 450)],
        [Base EXCEPT !.blmin = DictWide, !.cell = FloatCell(Cubic(400))],
        [Base EXCEPT !.volume = FloatVolume(64), !.splits = Split2],
        [Base EXCEPT !.volume = IntVolume(0)],
        [Base EXCEPT !.volume = IntVolume(1), !.splits = Split2],
        [Base EXCEPT !.volume = IntVolume(-8)],
        [Base EXCEPT !.volume = IntVolume(0), !.cell = FloatCell(Cubic(400))],
        [Base EXCEPT !.volume = IntVolume(0), !.cellbounds = Bounds(300, 450)],
        [Base EXCEPT !.cellbounds = Bounds(300, 450)],
        [Base EXCEPT !.cellbounds = Bounds(300, 450), !.splits = Split2],
        [Base EXCEPT !.cell = FloatCell(Cubic(400))],
        [Base EXCEPT !.cell = FloatCell(Cubic(400)), !.splits = Split2],
        [Base EXCEPT !.cell = IntCell(Cubic(500)), !.splits = Split2],
        [Base EXCEPT !.cell = FloatCell(Cubic(500)), !.cellbounds = Bounds(300, 450)],
        [Base EXCEPT !.splits = Split13],
        [Base EXCEPT !.splits = SplitZeroFirst],
        [Base EXCEPT !.splits = SplitZero],
        [Base EXCEPT !.splits = SplitNeg]}

\* ------------------------------------------------------------------ state
\* Two threads of one process, each with a StartGenerator of its own, and
\* the two random streams of the process: the hidden instance behind
\* 'from random import shuffle, random, sample' (line 7) and the global
\* state of np.random (lines 187 and 216).
Callers == {"a", "b"}
Streams == {"random", "np.random"}

\* The generator of caller a holds one CO molecule, that of caller b one
\* C atom; both have a fixed cell (no cell is sampled, lines 120-123), the
\* default splits and room for the block, so that a call draws at line
\* 96, line 103, line 21 (three times), line 187 (if the block has more
\* than one atom) and line 216, and shuffle() of one instance draws
\* nothing.
ConcBlock == [a |-> SpecCO, b |-> SpecC]

VARIABLES
  pc,               \* where the program is
  args,             \* the arguments the constructor was called with
  self_volume, self_cellbounds, self_cell, self_splits, self_blocks, self_blmin,
  split,            \* get_new_candidate: the split tuple selected
  repeat,           \* the repeat vector
  cell,             \* the subcell
  full_cell,        \* the full cell
  nan,              \* the subcell's entries are NaN
  detlog,           \* log2 of |det| of the sampled subcell, times 10000
  flat_blocks,      \* the block of every instance of the subcell, in order
  indices,          \* block type of every instance of the subcell, in order
  surplus,          \* per block type, the instances to discard
  cand,             \* the subcell structure being filled
  i,                \* index of the instance being placed
  cand_full,        \* the subcell structure repeated over the full cell
  bad_tags,         \* per block type, the tags discarded
  atoms,            \* the instance being placed (positions about its centre)
  result,           \* the structure returned by the last call
  earlier,          \* the structures of earlier calls, as the caller holds them
  calls,            \* calls of get_new_candidate that have ended
  site,             \* two callers in one process: where each one's call is
  next_draw,        \* position of the module-level streams random and np.random
  took              \* the positions of the streams each call has consumed

config == <<self_volume, self_cellbounds, self_cell, self_splits, self_blocks, self_blmin>>
locals == <<split, repeat, cell, full_cell, nan, detlog, flat_blocks, indices, surplus, cand, i, atoms, cand_full, bad_tags>>
conc == <<site, next_draw, took>>
single == <<pc, args, config, locals, result, earlier, calls>>
vars == <<pc, args, config, locals, result, earlier, calls, conc>>

\* origin: for every tag of the structure, in order, the tag its instance
\* had in the repeated subcell structure (image * N_blocks + placement
\* index).  pbc: the periodicity flags; refs: the objects of the generator that the
\* structure's arrays are (an array that is a copy is nobody else's).
NoResult == [cell |-> ZeroCell, atoms |-> <<>>, nan |-> FALSE,
             origin |-> <<>>, pbc |-> <<FALSE, FALSE, FALSE>>, refs |-> {}]

\* on: the caller holds a structure of an earlier call; refs: the objects
\* of the generator these structures are built on; intact: nothing has
\* written to an array of theirs since they were returned.
NoEarlier == [on |-> FALSE, refs |-> {}, intact |-> TRUE]

NoArgs == [blocks |-> <<>>, blmin |-> Ratio(0), volume |-> IntVolume(0),
           cellbounds |-> NoBounds, cell |-> NoCell, splits |-> <<>>]

\* No local of get_new_candidate holds anything outside a call.
ClearLocals ==
  /\ split' = <<>>
  /\ repeat' = <<1, 1, 1>>
  /\ cell' = ZeroCell
  /\ full_cell' = ZeroCell
  /\ nan' = FALSE
  /\ detlog' = 0
  /\ flat_blocks' = <<>>
  /\ indices' = <<>>
  /\ surplus' = <<>>
  /\ cand' = <<>>
  /\ cand_full' = <<>>
  /\ bad_tags' = <<>>
  /\ i' = 0
  /\ atoms' = <<>>

Init ==
  /\ pc = "new"
  /\ args = NoArgs
  /\ self_volume = [v |-> 0, isint |-> TRUE]
  /\ self_cellbounds = [on |-> FALSE, lo |-> 0, hi |-> 0]
  /\ self_cell = [on |-> FALSE, m |-> ZeroCell, isint |-> FALSE]
  /\ self_splits = <<>>
  /\ self_blocks = <<>>
  /\ self_blmin = << >>
  /\ split = <<>>
  /\ repeat = <<1, 1, 1>>
  /\ cell = ZeroCell
  /\ full_cell = ZeroCell
  /\ nan = FALSE
  /\ detlog = 0
  /\ flat_blocks = <<>>
  /\ indices = <<>>
  /\ surplus = <<>>
  /\ cand = <<>>
  /\ cand_full = <<>>
  /\ bad_tags = <<>>
  /\ i = 0
  /\ atoms = <<>>
  /\ site = [c \in Callers |-> [at |-> "call", k |-> 0]]
  /\ next_draw = [s \in Streams |-> 1]
  /\ took = [c \in Callers |-> <<>>]
  /\ result = NoResult
  /\ earlier = NoEarlier
  /\ calls = 0

\* ------------------------------------------------------------ constructor
\* A variant that keeps the weights as they are.
NormalizeSplits_Raw(splits) ==
  [k \in 1..Len(splits) |-> [split |-> splits[k].split, num |-> splits[k].w, den |-> 1]]

\* Lines 65-66: every weight divided by the sum of the weights.  The float
\* v * 1. / tot is the fraction num/den with den > 0.
NormalizeSplits(splits) ==
  LET tot == SumSeq([k \in 1..Len(splits) |-> splits[k].w])
  IN  [k \in 1..Len(splits) |->
         [split |-> splits[k].split, num |-> splits[k].w * Sgn(tot), den |-> Abs(tot)]]

\* Lines 72-77: an Atoms object is taken as it is, an element symbol
\* becomes one atom, any other string is looked up as a molecule name.
ResolveBlock(block) ==
  IF block.kind = "Atoms" THEN block.atoms
  ELSE IF block.name \in DOMAIN atomic_numbers THEN AtomC
  ELSE molecule(block.name)

\* Lines 69-80: the resolved blocks and the set of their atomic numbers.
ResolveBlocks(blocks) ==
  [k \in 1..Len(blocks) |-> [block |-> ResolveBlock(blocks[k].block), count |-> blocks[k].count]]

BlockNumbers(blocks) ==
  UNION {{blocks[k].block.nums[a] : a \in 1..Len(blocks[k].block.nums)} : k \in 1..Len(blocks)}

\* Lines 82-85.
MakeBlmin(blmin, numbers) ==
  IF blmin.isdict THEN blmin.dict ELSE closest_distances_generator(numbers, blmin.ratio)

\* StartGenerator.__init__.  Dividing by a zero sum of weights raises
\* ZeroDivisionError: no object is constructed.
Construct ==
  /\ pc = "new"
  /\ \E arg \in ConstructorArgs :
       /\ args' = arg
       /\ IF SumSeq([k \in 1..Len(arg.splits) |-> arg.splits[k].w]) = 0
          THEN /\ pc' = "init_raised"
               /\ UNCHANGED <<config, locals, result, earlier, calls, conc>>
          ELSE /\ pc' = "ready"
               /\ self_volume' = arg.volume
               /\ self_cellbounds' = arg.cellbounds
               /\ self_cell' = arg.cell
               /\ self_splits' = NormalizeSplits(arg.splits)
               /\ self_blocks' = ResolveBlocks(arg.blocks)
               /\ self_blmin' = MakeBlmin(arg.blmin, BlockNumbers(ResolveBlocks(arg.blocks)))
               /\ UNCHANGED <<locals, result, earlier, calls, conc>>

\* ------------------------------------------------------ get_new_candidate
\* The values random() takes here, as numerators over 4.
RandVals == 0..3

\* A variant without the copy of line 177: the instance being placed is the
\* configured block itself, so moving it moves the block.
KeepConfig_NoCopy ==
  /\ UNCHANGED <<self_volume, self_cellbounds, self_cell, self_splits, self_blmin>>
  /\ self_blocks' =
       IF pc = "place"
       THEN [self_blocks EXCEPT ![indices[i]].block.pos =
               [a \in 1..Len(atoms) |-> atoms[a].pos]]
       ELSE self_blocks

\* get_new_candidate assigns no attribute of self: it reads them, and it
\* works on copies of the fixed cell (np.copy, line 121) and of the blocks
\* (block.copy(), line 177).
KeepConfig == UNCHANGED config

\* Lines 96-101: the first split, in iteration order, whose cumulative
\* probability exceeds r; the last one when none does.  cum is the
\* numerator of the cumulative probability before item k.
RECURSIVE SelectSplit(_, _, _, _)
SelectSplit(splits, r, k, cum) ==
  LET c == cum + splits[k].num
  IN  IF 4 * c > r * splits[k].den \/ k = Len(splits)
      THEN splits[k].split
      ELSE SelectSplit(splits, r, k + 1, c)

\* sample(range(3), n): the sequences of n distinct directions (1..3 here).
Samples(n) == {d \in [1..n -> 1..3] : \A a, b \in 1..n : a # b => d[a] # d[b]}

\* A variant that writes every factor into the first direction drawn.
RepeatOf_Same(factors, directions) ==
  [d \in 1..3 |-> IF d = directions[1] THEN factors[Len(factors)] ELSE 1]

\* Lines 104-107.
RepeatOf(factors, directions) ==
  [d \in 1..3 |-> IF \E a \in 1..Len(factors) : directions[a] = d
                  THEN factors[CHOOSE a \in 1..Len(factors) : directions[a] = d]
                  ELSE 1]

\* Line 110: self.volume / nparts, floor division when the volume is an
\* int.  num / den: the quotient; sign: its sign; log: its base-2
\* logarithm * 10000 when it is positive.
TargetVolume(volume, nparts) ==
  IF volume.isint
  THEN [num |-> volume.v \div nparts, den |-> 1,
        sign |-> Sgn(volume.v \div nparts), log |-> 10000 * Log2(volume.v \div nparts)]
  ELSE [num |-> volume.v, den |-> nparts,
        sign |-> Sgn(volume.v), log |-> 10000 * (Log2(volume.v) - Log2(nparts))]

\* Line 122: (full_cell.T / repeat).T, row d divided by repeat[d]; floor
\* division of whole Angstroms when the array holds ints.
DivideCell(fixed, rep) ==
  [d \in 1..3 |-> [j \in 1..3 |->
     IF fixed.isint THEN 100 * ((fixed.m[d][j] \div 100) \div rep[d])
     ELSE fixed.m[d][j] \div rep[d]]]

\* Lines 96-125: the split and the directions are drawn; with a fixed
\* cell the subcell is computed and the sampling loop is skipped.
ChooseSplit ==
  /\ pc = "ready"
  /\ \E r \in RandVals :
       \E selected \in {SelectSplit(self_splits, r, 1, 0)} :
           \E directions \in Samples(Len(selected)) :
             /\ split' = selected
             /\ repeat' = RepeatOf(selected, directions)
             /\ IF self_cell.on
                THEN /\ full_cell' = self_cell.m
                     /\ cell' = DivideCell(self_cell, repeat')
                     /\ pc' = "expand"
                ELSE /\ UNCHANGED <<cell, full_cell>>
                     /\ pc' = "sample"
  /\ UNCHANGED <<nan, detlog, flat_blocks, indices, surplus, cand, i, atoms, cand_full, bad_tags, args, result, earlier, calls, conc>>
  /\ KeepConfig

\* The six random() draws of one pass of the cell-sampling loop, in the
\* order of lines 131-136, as numerators over 4.  A diagonal draw is 1/4 or
\* 1/2 (a power of two, so that its logarithm is exact).
CellDraws == {<<2, 2, 2, 2, 2, 2>>, <<1, 2, 2, 2, 2, 2>>, <<2, 2, 2, 3, 1, 2>>}

\* log2 of the draw k/4, times 10000.
DrawLog(k) == 10000 * (Log2(k) - 2)

\* Lines 128: the largest self-pair entry of blmin.
SelfPairs(blmin) == {k \in DOMAIN blmin : k[1] = k[2]}
Blminmax(blmin) == MaxSet({blmin[k] : k \in SelfPairs(blmin)})

\* Lines 129-139: the lower-triangular cell of the draws d for the target
\* volume of logarithm tvlog, rescaled by (target_volume / volume)**0.33.
\* l = target_volume**0.33; a diagonal entry is random() * l, an
\* off-diagonal entry (random() - 0.5) times a diagonal entry; the
\* determinant is the product of the diagonal.
SampledCell(tvlog, d) ==
  LET llog == (tvlog * PowNum) \div PowDen
      d00 == DrawLog(d[1]) + llog
      d11 == DrawLog(d[3]) + llog
      d22 == DrawLog(d[6]) + llog
      vollog == d00 + d11 + d22
      slog == ((tvlog - vollog) * PowNum) \div PowDen
      \* (k/4 - 0.5) * 2^(dlog/10000), scaled: sign * 2^((dlog - 20000 + slog)/10000)
      tilt(k, dlog) == (k - 2) * Exp2c(dlog - 20000 + slog)
  IN  <<<<Exp2c(d00 + slog), 0, 0>>,
        <<tilt(d[2], d00), Exp2c(d11 + slog), 0>>,
        <<tilt(d[4], d00), tilt(d[5], d11), Exp2c(d22 + slog)>>>>

\* Line 138: log2 of abs(det(cell)) before the rescaling; the determinant
\* of a lower-triangular matrix is the product of its diagonal.
UnscaledVolLog(tvlog, d) ==
  LET llog == (tvlog * PowNum) \div PowDen
  IN  (DrawLog(d[1]) + llog) + (DrawLog(d[3]) + llog) + (DrawLog(d[6]) + llog)

\* Line 139: log2 of the factor (target_volume / volume)**0.33.
ScaleLog(tvlog, d) == ((tvlog - UnscaledVolLog(tvlog, d)) * PowNum) \div PowDen

\* log2 of abs(det(cell)) after line 139: every entry of the 3 x 3 matrix
\* is multiplied by the factor, the determinant by its cube.
ScaledDetLog(tvlog, d) == UnscaledVolLog(tvlog, d) + 3 * ScaleLog(tvlog, d)

\* Line 141: (repeat * cell.T).T, row d multiplied by repeat[d].
FullCell(rep, c) == [d \in 1..3 |-> [j \in 1..3 |-> rep[d] * c[d][j]]]

\* CellBounds.is_within_bounds (ase.ga.bulk_utilities): every cell vector
\* has a length between lo and hi.  A comparison with NaN is false.
is_within_bounds(cb, c, isnan) ==
  /\ ~isnan
  /\ \A d \in 1..3 : cb.lo * cb.lo <= Norm2(c[d]) /\ Norm2(c[d]) <= cb.hi * cb.hi

\* A variant of the validity test that leaves the cell bounds out.
ValidCell_NoBounds(cb, rep, c, isnan, blminmax) ==
  isnan \/ \A d \in 1..3 : ~(Norm2(c[d]) < blminmax * blminmax)

\* Lines 143-149; norm(NaN) < blminmax is false.
ValidCell(cb, rep, c, isnan, blminmax) ==
  /\ cb.on => is_within_bounds(cb, FullCell(rep, c), isnan)
  /\ isnan \/ \A d \in 1..3 : ~(Norm2(c[d]) < blminmax * blminmax)

\* One pass of the loop of lines 127-149.  max() of an empty list raises
\* ValueError.  A target volume of 0 gives l = 0, a cell of zeros and the
\* scale factor (0 / 0)**0.33 = NaN, so a cell of NaN entries.  A negative
\* target volume raised to 0.33 is NaN for a numpy scalar and raises
\* ValueError for a Python float.
SampleCell ==
  /\ pc = "sample"
  /\ LET tv == TargetVolume(self_volume, ProdSeq(repeat))
     IN  \/ /\ SelfPairs(self_blmin) = {} \/ tv.sign < 0
            /\ pc' = "raised"
            /\ UNCHANGED <<cell, full_cell, nan, detlog>>
         \/ /\ SelfPairs(self_blmin) # {}
            /\ \E d \in CellDraws :
                 \E c \in {IF tv.sign > 0 THEN SampledCell(tv.log, d) ELSE ZeroCell} :
                   /\ cell' = c
                   /\ nan' = (tv.sign <= 0)
                   /\ detlog' = IF tv.sign > 0 THEN ScaledDetLog(tv.log, d) ELSE 0
                   /\ full_cell' = FullCell(repeat, c)
                   /\ pc' = IF ValidCell(self_cellbounds, repeat, c, tv.sign <= 0,
                                         Blminmax(self_blmin))
                            THEN "expand" ELSE "sample"
  /\ UNCHANGED <<split, repeat, flat_blocks, indices, surplus, cand, i, atoms, cand_full, bad_tags, args, result, earlier, calls, conc>>
  /\ KeepConfig

\* Lines 155-159, with block types numbered from 1: the replicas per
\* subcell, the surplus, and the block type of every instance.
\* A variant that divides with truncation and adds one.
CountPart_Over(count, nparts) == count \div nparts + 1

CountPart(count, nparts) == CeilDiv(count, nparts)

\* A variant that reports no surplus.
Surplus_Zero(blocks, nparts) == [k \in 1..Len(blocks) |-> 0]

Surplus(blocks, nparts) ==
  [k \in 1..Len(blocks) |-> nparts * CountPart(blocks[k].count, nparts) - blocks[k].count]

RECURSIVE ExpandIndices(_, _, _)
ExpandIndices(blocks, nparts, k) ==
  IF k > Len(blocks) THEN <<>>
  ELSE [a \in 1..CountPart(blocks[k].count, nparts) |-> k]
       \o ExpandIndices(blocks, nparts, k + 1)

\* Line 158: the flat list of block instances before the shuffle.
RECURSIVE ExpandBlocks(_, _, _)
ExpandBlocks(blocks, nparts, k) ==
  IF k > Len(blocks) THEN <<>>
  ELSE [a \in 1..CountPart(blocks[k].count, nparts) |-> blocks[k].block]
       \o ExpandBlocks(blocks, nparts, k + 1)

\* Line 167: blocks = [blocks[i] for i in order].
ShuffledBlocks(flat, order) == [k \in 1..Len(flat) |-> flat[order[k]]]

\* A variant that leaves the list of block indices in its first order.
ShuffledIndices_Unshuffled(flat, order) == flat

\* Line 168: indices = np.array(indices)[order].
ShuffledIndices(flat, order) == [k \in 1..Len(flat) |-> flat[order[k]]]

\* shuffle(order): the permutations of 1..n.
Orders(n) == {o \in [1..n -> 1..n] : \A a, b \in 1..n : a # b => o[a] # o[b]}

\* Positions moved so that their mean is the origin.
Centre(ps) == [k \in 1..Len(ps) |-> VSub(ps[k], MeanPos(ps))]

\* Lines 177-178: a copy of the block of instance k (1-based), tagged k - 1.
\* The copy is kept centred: line 185 subtracts its centre before use.
NewAtoms(blks, k) ==
  LET b == blks[k]
      c == Centre(b.pos)
  IN  [a \in 1..Len(b.nums) |-> [num |-> b.nums[a], pos |-> c[a], tag |-> k - 1]]

\* Lines 152-179: the flat list of instances is built and shuffled, the
\* subcell structure starts empty, the first instance is copied.
ExpandShuffle ==
  /\ pc = "expand"
  /\ LET nparts == ProdSeq(repeat)
         flat == ExpandIndices(self_blocks, nparts, 1)
     IN  /\ surplus' = Surplus(self_blocks, nparts)
         /\ \E order \in Orders(Len(flat)) :
              /\ flat_blocks' = ShuffledBlocks(ExpandBlocks(self_blocks, nparts, 1), order)
              /\ indices' = ShuffledIndices(flat, order)
              /\ atoms' = NewAtoms(flat_blocks', 1)
         /\ cand' = <<>>
         /\ i' = 1
         /\ pc' = "place"
  /\ UNCHANGED <<split, repeat, cell, full_cell, nan, detlog, cand_full, bad_tags, args, result, earlier, calls, conc>>
  /\ KeepConfig

\* The draws of one placement attempt: three random() values for the
\* position (line 21) and np.random.random(3) for the rotation (line 187),
\* as numerators over 4.
PosDraws == {<<1, 1, 1>>, <<3, 1, 1>>, <<1, 3, 3>>}
RotDraws == {<<0, 0, 0>>, <<0, 2, 1>>}

\* random_pos (lines 16-22): the sum of random() * cell[d, :].
random_pos(c, p) ==
  LET v == LatticeVec(p, c) IN <<v[1] \div 4, v[2] \div 4, v[3] \div 4>>

\* Atoms.euler_rotate for angles that are quarter turns: a rotation about z
\* by phi, then about x by theta, then about z by psi.
Cos4(q) == IF q % 4 = 0 THEN 1 ELSE IF q % 4 = 2 THEN -1 ELSE 0
Sin4(q) == IF q % 4 = 1 THEN 1 ELSE IF q % 4 = 3 THEN -1 ELSE 0
RotZ(q, v) == <<Cos4(q) * v[1] + Sin4(q) * v[2], Cos4(q) * v[2] - Sin4(q) * v[1], v[3]>>
RotX(q, v) == <<v[1], Cos4(q) * v[2] + Sin4(q) * v[3], Cos4(q) * v[3] - Sin4(q) * v[2]>>
euler_rotate(v, phi, theta, psi) == RotZ(psi, RotX(theta, RotZ(phi, v)))

\* Lines 183-189: the copy translated so that its centre is pos and, when
\* it has more than one atom, rotated about pos by phi = 360 r[1],
\* 0.5 * theta = 180 r[2] and psi = 360 r[3] degrees.
MoveAtoms(at, pos, r) ==
  LET cop == MeanPos([k \in 1..Len(at) |-> at[k].pos])
      moved(k) == VAdd(at[k].pos, VSub(pos, cop))
      turned(k) == IF Len(at) > 1
                   THEN VAdd(pos, euler_rotate(VSub(moved(k), pos), r[1], r[2] \div 2, r[3]))
                   ELSE moved(k)
  IN  [k \in 1..Len(at) |-> [at[k] EXCEPT !.pos = turned(k)]]

\* The periodic images a distance test looks at.
Images == (-ImgRange..ImgRange) \X (-ImgRange..ImgRange) \X (-ImgRange..ImgRange)

\* atoms_too_close(attempt, blmin, use_tags=True) (ase.ga.bulk_utilities):
\* some atom is closer to an atom, or to a periodic image of an atom, than
\* the blmin entry of their atomic numbers; two atoms with the same tag are
\* not compared in the home cell.
atoms_too_close(at, c, blmin) ==
  \E shifts \in {{LatticeVec(n, c) : n \in Images \ {Vec0}}} :
    \E a \in 1..Len(at) : \E b \in a..Len(at) :
      \E d \in {VSub(at[a].pos, at[b].pos)} :
        \E m2 \in {blmin[<<at[a].num, at[b].num>>] * blmin[<<at[a].num, at[b].num>>]} :
          \/ at[a].tag # at[b].tag /\ Norm2(d) < m2
          \/ \E v \in shifts :
               (d[1] + v[1]) * (d[1] + v[1]) + (d[2] + v[2]) * (d[2] + v[2])
                 + (d[3] + v[3]) * (d[3] + v[3]) < m2

\* The pairs of atomic numbers a distance test of these atoms looks up.
LookedUp(at) == {<<at[a].num, at[b].num>> : a, b \in 1..Len(at)}

\* One pass of the loop of lines 182-197 for instance i.  Looking up a
\* pair that blmin lacks raises KeyError.  No comparison with a NaN
\* distance is true, so nothing is too close in a NaN cell.
\* A variant that starts the subcell again, empty, after a position that
\* does not fit.
RejectAttempt_Restart(placed, pos) ==
  /\ cand' = <<>>
  /\ i' = 1
  /\ atoms' = NewAtoms(flat_blocks, 1)
  /\ UNCHANGED pc

\* Lines 181-194, too_close: 'while not pos_found' repeats with the copy
\* where the attempt left it; the subcell structure and the instance
\* index are not touched.
RejectAttempt(placed, pos) ==
  /\ atoms' = [k \in 1..Len(placed) |-> [placed[k] EXCEPT !.pos = VSub(placed[k].pos, pos)]]
  /\ UNCHANGED <<pc, cand, i>>

PlaceAttempt ==
  /\ pc = "place"
  /\ \E p \in PosDraws, r \in (IF Len(atoms) > 1 THEN RotDraws ELSE {<<0, 0, 0>>}) :
     \E pos \in {random_pos(cell, p)} :
     \E placed \in {MoveAtoms(atoms, pos, r)} :
     \E attempt \in {cand \o placed} :
       IF ~(LookedUp(attempt) \subseteq DOMAIN self_blmin)
       THEN /\ pc' = "raised"
            /\ UNCHANGED <<cand, i, atoms>>
       ELSE IF ~nan /\ atoms_too_close(attempt, cell, self_blmin)
       THEN RejectAttempt(placed, pos)
       ELSE /\ cand' = attempt
            /\ IF i < Len(indices)
               THEN /\ i' = i + 1
                    /\ atoms' = NewAtoms(flat_blocks, i + 1)
                    /\ pc' = "place"
               ELSE /\ i' = i
                    /\ atoms' = <<>>
                    /\ pc' = "rebuild"
  /\ UNCHANGED <<split, repeat, cell, full_cell, nan, detlog, flat_blocks, indices, surplus, cand_full, bad_tags, args, result, earlier, calls, conc>>
  /\ KeepConfig

\* Ascending sequence of a finite set of integers.
RECURSIVE SortedSeq(_)
SortedSeq(S) ==
  IF S = {} THEN <<>>
  ELSE LET m == CHOOSE x \in S : \A y \in S : x <= y
       IN  <<m>> \o SortedSeq(S \ {m})

RECURSIVE Flatten(_)
Flatten(ss) == IF ss = <<>> THEN <<>> ELSE Head(ss) \o Flatten(Tail(ss))

\* Atoms.repeat: image m = (m0 * rep[2] + m1) * rep[3] + m2 of the subcell
\* is shifted by m0, m1, m2 cell vectors; the images follow one another.
ImageShift(m, rep) ==
  <<m \div (rep[2] * rep[3]), (m \div rep[3]) % rep[2], m % rep[3]>>

\* A variant that leaves the tags of the images as they are.
CandFull_NoOffset(cnd, rep, c, nblocks) ==
  [j \in 1..(ProdSeq(rep) * Len(cnd)) |->
     LET m == (j - 1) \div Len(cnd)
         a == cnd[((j - 1) % Len(cnd)) + 1]
     IN  [num |-> a.num,
          pos |-> VAdd(a.pos, LatticeVec(ImageShift(m, rep), c)),
          tag |-> a.tag]]

\* Lines 203-209: the repeated structure; the atoms of image m carry the
\* tag of their instance plus m * N_blocks.
CandFull(cnd, rep, c, nblocks) ==
  [j \in 1..(ProdSeq(rep) * Len(cnd)) |->
     LET m == (j - 1) \div Len(cnd)
         a == cnd[((j - 1) % Len(cnd)) + 1]
     IN  [num |-> a.num,
          pos |-> VAdd(a.pos, LatticeVec(ImageShift(m, rep), c)),
          tag |-> a.tag + m * nblocks]]

\* Lines 212 and 215: the tags whose instance is of block type k, where
\* indices_full = np.tile(indices, nrep).
TagsOfType(idx, nrep, k) ==
  {t \in 0..(nrep * Len(idx) - 1) : idx[(t % Len(idx)) + 1] = k}

\* A variant that draws the discarded tags of a block type from the tags
\* of all block types.
BadChoices_AnyType(idx, nrep, sur) ==
  {bad \in [1..Len(sur) -> SUBSET (0..(nrep * Len(idx) - 1))] :
     \A k \in 1..Len(sur) : Cardinality(bad[k]) = sur[k]}

\* Line 216: np.random.choice(tags, size=surplus[k], replace=False), for
\* every block type k: the set of discarded tags.
BadChoices(idx, nrep, sur) ==
  {bad \in [1..Len(sur) -> SUBSET (0..(nrep * Len(idx) - 1))] :
     \A k \in 1..Len(sur) :
        bad[k] \subseteq TagsOfType(idx, nrep, k) /\ Cardinality(bad[k]) = sur[k]}

\* A variant that processes the retained tags in ascending order, whatever
\* their block type.
KeptTags_ByTag(idx, nrep, bad) ==
  SortedSeq(UNION {TagsOfType(idx, nrep, k) \ bad[k] : k \in 1..Len(bad)})

\* Lines 214-218: the retained tags in the order they are processed.
KeptTags(idx, nrep, bad) ==
  Flatten([k \in 1..Len(bad) |-> SortedSeq(TagsOfType(idx, nrep, k) \ bad[k])])

\* A variant that leaves the tag of the repeated structure on the atoms.
SelectTag_KeepTag(full, tag, newtag) ==
  LET sel == SelectSeq(full, LAMBDA a : a.tag = tag)
  IN  [j \in 1..Len(sel) |-> [sel[j] EXCEPT !.tag = tag]]

\* Lines 219-221: the atoms of one tag, in their order, retagged.
SelectTag(full, tag, newtag) ==
  LET sel == SelectSeq(full, LAMBDA a : a.tag = tag)
  IN  [j \in 1..Len(sel) |-> [sel[j] EXCEPT !.tag = newtag]]

\* Lines 211-224: the atoms of the returned structure.
Rebuilt(full, kept) ==
  Flatten([j \in 1..Len(kept) |-> SelectTag(full, kept[j], j - 1)])

\* Line 222, for every retained tag.
LengthsAgree(full, kept, idx, blocks) ==
  \A j \in 1..Len(kept) :
     Len(SelectTag(full, kept[j], j - 1)) = Len(blocks[idx[(kept[j] % Len(idx)) + 1]].block.nums)

\* Line 90.
pbc == <<TRUE, TRUE, TRUE>>

\* A variant in which a copy is the object copied.
CopyRef_Alias(ref) == ref

\* np.copy (line 121) and Atoms.copy (line 177): the copy is a new object.
CopyRef(ref) == "new"

\* The objects of the generator the returned structure is built on.  Its
\* cell is full_cell, a copy of self.cell (line 121) or the product of line
\* 141; its atoms come from the copies of the blocks made at line 177.
ResultRefs(fixed) ==
  ({IF fixed.on THEN CopyRef("self.cell") ELSE "new"} \cup {CopyRef("self.blocks")}) \ {"new"}

\* Lines 202-228: the subcell structure is repeated, the surplus instances
\* are discarded at random, the rest is put together in the order of the
\* configured blocks and returned.
Rebuild ==
  /\ pc = "rebuild"
  /\ LET nrep == ProdSeq(repeat)
         full == CandFull(cand, repeat, cell, Len(indices))
     IN  \E chosen \in BadChoices(indices, nrep, surplus) :
         \E kept \in {KeptTags(indices, nrep, chosen)} :
           /\ cand_full' = full
           /\ bad_tags' = chosen
           /\ IF LengthsAgree(full, kept, indices, self_blocks)
              THEN /\ result' = [cell |-> full_cell, atoms |-> Rebuilt(full, kept),
                                nan |-> nan, origin |-> kept, pbc |-> pbc,
                                refs |-> ResultRefs(self_cell)]
                   /\ pc' = "done"
              ELSE /\ pc' = "raised"
                   /\ UNCHANGED result
  /\ UNCHANGED <<split, repeat, cell, full_cell, nan, detlog, flat_blocks, indices, surplus,
                 cand, i, atoms, args, earlier, calls, conc>>
  /\ KeepConfig

\* The caller writes into the structure it was handed: an entry of its
\* cell and the position of its first atom.  An array that is also an
\* object of the generator, or of an earlier structure, changes with it.
CallerChange ==
  /\ pc = "done"
  /\ pc' = "changed"
  /\ result' = [result EXCEPT !.cell[1][1] = 100, !.atoms[1].pos = <<100, 100, 100>>]
  /\ self_cell' = IF "self.cell" \in result.refs
                  THEN [self_cell EXCEPT !.m[1][1] = 100] ELSE self_cell
  /\ self_blocks' = IF "self.blocks" \in result.refs
                    THEN [self_blocks EXCEPT ![1].block.pos[1] = <<100, 100, 100>>]
                    ELSE self_blocks
  /\ earlier' = [earlier EXCEPT !.intact = @ /\ (earlier.refs \cap result.refs = {})]
  /\ UNCHANGED <<self_volume, self_cellbounds, self_splits, self_blmin, args, locals, calls, conc>>

\* The call is over (returned or raised); the caller keeps the structure
\* and the object can be used again.
EndCall ==
  /\ pc \in {"done", "changed", "raised"}
  /\ calls < MaxCalls
  /\ pc' = "ready"
  /\ calls' = calls + 1
  /\ ClearLocals
  /\ UNCHANGED conc
  /\ result' = NoResult
  /\ UNCHANGED args
  /\ earlier' = IF pc = "raised" THEN earlier
                ELSE [on |-> TRUE, refs |-> earlier.refs \cup result.refs,
                      intact |-> earlier.intact]
  /\ KeepConfig

Next ==
  \/ Construct
  \/ ChooseSplit
  \/ SampleCell
  \/ ExpandShuffle
  \/ PlaceAttempt
  \/ Rebuild
  \/ CallerChange
  \/ EndCall

Spec == Init /\ [][Next]_vars

\* ----------------------------------------- two callers, one process
\* A draw of n values from stream s by caller c: the call gets the values
\* at the stream's position, whoever moved it there, and moves it on.
Draw(c, s, n) ==
  /\ took' = [took EXCEPT ![c] = Append(@, [stream |-> s, first |-> next_draw[s], n |-> n])]
  /\ next_draw' = [next_draw EXCEPT ![s] = @ + n]

\* Line 96: r = random().
ConcSelectSplit ==
  \E c \in Callers :
    /\ site[c].at = "call"
    /\ Draw(c, "random", 1)
    /\ site' = [site EXCEPT ![c] = [at |-> "directions", k |-> 0]]
    /\ UNCHANGED single

\* Line 103: sample(range(3), len(split)), one value for the split (1,).
ConcDirections ==
  \E c \in Callers :
    /\ site[c].at = "directions"
    /\ Draw(c, "random", 1)
    /\ site' = [site EXCEPT ![c] = [at |-> "random_pos", k |-> 0]]
    /\ UNCHANGED single

\* Lines 19-22: one random() of the loop of random_pos.
ConcRandomPos ==
  \E c \in Callers :
    /\ site[c].at = "random_pos"
    /\ Draw(c, "random", 1)
    /\ site' = [site EXCEPT ![c] =
                  IF site[c].k < 2 THEN [at |-> "random_pos", k |-> site[c].k + 1]
                  ELSE IF Len(ResolveBlock(ConcBlock[c]).nums) > 1
                       THEN [at |-> "rotate", k |-> 0]
                       ELSE [at |-> "choice", k |-> 0]]
    /\ UNCHANGED single

\* Lines 186-187: phi, theta, psi = 360 * np.random.random(3).
ConcRotate ==
  \E c \in Callers :
    /\ site[c].at = "rotate"
    /\ Draw(c, "np.random", 3)
    /\ site' = [site EXCEPT ![c] = [at |-> "choice", k |-> 0]]
    /\ UNCHANGED single

\* Line 216: np.random.choice(tags, size=surplus[i], replace=False), which
\* permutes the tags; then the call returns.
ConcChoice ==
  \E c \in Callers :
    /\ site[c].at = "choice"
    /\ Draw(c, "np.random", 1)
    /\ site' = [site EXCEPT ![c] = [at |-> "returned", k |-> 0]]
    /\ UNCHANGED single

\* The two calls run whenever the interpreter lets them.
ConcNext ==
  \/ ConcSelectSplit
  \/ ConcDirections
  \/ ConcRandomPos
  \/ ConcRotate
  \/ ConcChoice

ConcSpec == Init /\ [][ConcNext]_vars

\* random() is fair: a pass of a retry loop that would succeed is not
\* avoided for ever.
ValidSample == SampleCell /\ pc' = "expand"
AcceptedAttempt == PlaceAttempt /\ cand' # cand
FairSpec ==
  /\ Spec
  /\ WF_vars(Next)
  /\ SF_vars(ValidSample)
  /\ SF_vars(AcceptedAttempt)

\* ============================================================ properties
Constructed == pc \notin {"new", "init_raised"}

\* The tags of a structure and the atomic numbers of one tag, in order.
TagsOf(at) == {at[a].tag : a \in 1..Len(at)}
NumsOfTag(at, t) ==
  LET sel == SelectSeq(at, LAMBDA a : a.tag = t) IN [j \in 1..Len(sel) |-> sel[j].num]

\* Instances of block type k in a structure: the tags whose atoms are the
\* atoms of that block.
InstancesOf(at, k) == {t \in TagsOf(at) : NumsOfTag(at, t) = self_blocks[k].block.nums}

\* C1: every returned structure holds, of each configured block type,
\* exactly the configured number of instances, each one whole, whatever
\* split was drawn.
C1_CountsMatch ==
  pc = "done" =>
    /\ \A k \in 1..Len(self_blocks) :
         Cardinality(InstancesOf(result.atoms, k)) = self_blocks[k].count
    /\ Len(result.atoms) =
         SumSeq([k \in 1..Len(self_blocks) |->
                   self_blocks[k].count * Len(self_blocks[k].block.nums)])

C1_Witness ==
  /\ pc = "done"
  /\ Len(self_blocks) = 2
  /\ ProdSeq(repeat) = 2
  /\ surplus[2] = 1
  /\ Cardinality(InstancesOf(result.atoms, 2)) = MaxCount + 1

\* Squared distance of two positions, the second moved by every lattice
\* vector of the cell in turn: the smallest one.
MinImageDist2(c, p, q) ==
  LET ds == {Norm2(VAdd(VSub(p, q), LatticeVec(n, c))) : n \in Images}
  IN  CHOOSE d \in ds : \A e \in ds : d <= e

\* All pairs of atoms with different tags keep their minimal distance, the
\* periodic images of the cell c included.
DistancesKept(at, c, blmin) ==
  \A a, b \in 1..Len(at) :
     (at[a].tag # at[b].tag /\ <<at[a].num, at[b].num>> \in DOMAIN blmin) =>
        MinImageDist2(c, at[a].pos, at[b].pos)
          >= blmin[<<at[a].num, at[b].num>>] * blmin[<<at[a].num, at[b].num>>]

\* C2: in every returned structure all pairs of atoms with different tags
\* are at least their blmin entry apart, periodic images of the full cell
\* included (the positions are numbers, so the distances compare).
C2_MinDistances ==
  pc = "done" => (~result.nan /\ DistancesKept(result.atoms, result.cell, self_blmin))

\* C3 as stated: with cellbounds configured the returned cell is within
\* the bounds, a fixed cell included.
C3_AlwaysWithinBounds ==
  (pc = "done" /\ self_cellbounds.on) =>
     is_within_bounds(self_cellbounds, result.cell, result.nan)

\* C3, amended: with cellbounds configured and no fixed cell, the returned
\* cell is within the bounds.
C3_SampledWithinBounds ==
  (pc = "done" /\ self_cellbounds.on /\ ~self_cell.on) =>
     is_within_bounds(self_cellbounds, result.cell, result.nan)

C3_Witness ==
  /\ pc = "done"
  /\ self_cellbounds.on
  /\ ~self_cell.on
  /\ ProdSeq(repeat) = 2
  /\ Len(result.atoms) = MaxCount

\* C4: with a fixed cell there is no sampling; the subcell is the fixed
\* cell with row d divided by repeat[d], so that multiplied back it is
\* the fixed cell, and the returned cell is the fixed cell.
C4_FixedCell ==
  (self_cell.on /\ Constructed) =>
     /\ pc # "sample"
     /\ pc \in {"expand", "place", "rebuild", "done"} =>
          /\ FullCell(repeat, cell) = self_cell.m
          /\ full_cell = self_cell.m
     /\ pc = "done" => result.cell = self_cell.m

\* C6: once the object is constructed no step changes its configuration.
C6_ConfigFrozen == [][Constructed => config' = config]_vars

C6_Witness ==
  /\ pc = "done"
  /\ calls = 1
  /\ Len(self_blocks) = 2
  /\ Len(result.atoms) = 3

\* The pairs of atomic numbers of the blocks, self-pairs included.
RequiredPairs(blocks) == BlockNumbers(blocks) \X BlockNumbers(blocks)

\* C11: every returned structure is periodic on the three axes and is
\* built on no object of the generator; a change the caller makes to it
\* changes neither the configuration nor an earlier structure, and no step
\* of a later call writes to an earlier structure.
C11_FreshResult ==
  [][/\ pc' = "done" => (result'.pbc = <<TRUE, TRUE, TRUE>> /\ result'.refs = {})
     /\ (pc = "done" /\ pc' = "changed") => config' = config
     /\ earlier.on => (earlier'.on /\ earlier'.intact)]_vars

C11_Witness ==
  /\ pc = "changed"
  /\ calls = 1
  /\ earlier.on
  /\ self_cell.on
  /\ result.cell # self_cell.m

\* Placement index (from 0) and block type of the instance that carried
\* tag t in the repeated subcell structure.
PlacedAt(t) == t % Len(indices)
TypeOf(t) == indices[PlacedAt(t) + 1]

\* C12 as stated: of two instances of the returned structure, the one
\* placed into the subcell earlier carries the smaller tag.
C12_PlacementOrder ==
  pc = "done" =>
    \A j1, j2 \in 1..Len(result.origin) :
       PlacedAt(result.origin[j1]) < PlacedAt(result.origin[j2]) => j1 < j2

\* C12, amended: the tags of the returned structure are 0, 1, ... in the
\* order of the configured block types; within a block type they follow
\* the subcell image and, within an image, the placement order.
C12_BlockOrder ==
  pc = "done" =>
    /\ TagsOf(result.atoms) = 0..(Len(result.origin) - 1)
    /\ \A j \in 1..Len(result.origin) :
         NumsOfTag(result.atoms, j - 1) = self_blocks[TypeOf(result.origin[j])].block.nums
    /\ \A j1, j2 \in 1..Len(result.origin) :
         j1 < j2 =>
           \/ TypeOf(result.origin[j1]) < TypeOf(result.origin[j2])
           \/ /\ TypeOf(result.origin[j1]) = TypeOf(result.origin[j2])
              /\ result.origin[j1] < result.origin[j2]

C12_Witness ==
  /\ pc = "done"
  /\ Len(self_blocks) = 2
  /\ ProdSeq(repeat) = 2
  /\ indices[1] = 2
  /\ Len(result.origin) > 2

\* C13: without a fixed cell the rescaled subcell has the target volume
\* as the absolute value of its determinant (to 3/10000 in the base-2
\* logarithm, the rounding of the logarithms), so that the returned cell
\* has the configured volume.
C13_ExactVolume ==
  (pc \in {"expand", "place", "rebuild", "done"} /\ ~self_cell.on /\ ~nan) =>
     Abs(detlog - TargetVolume(self_volume, ProdSeq(repeat)).log) <= 3

\* C14: the target subcell volume times the number of subcells is the
\* configured volume, and it is positive when the volume is.
C14_NoTruncation ==
  pc \in {"sample", "expand", "place", "rebuild", "done"} =>
    LET nparts == ProdSeq(repeat)
        tv == TargetVolume(self_volume, nparts)
    IN  /\ tv.num * nparts = self_volume.v * tv.den
        /\ self_volume.v > 0 => tv.sign > 0

\* Instances of block type k placed into one subcell.
ReplicasOf(k) == Cardinality({j \in 1..Len(indices) : indices[j] = k})

\* C15: for every block type the subcell holds ceil(count / nparts)
\* instances, the least number that times nparts reaches the count; the
\* surplus is nparts times that number minus the count, at least 0, less
\* than nparts and at most the number of replicated instances.
C15_CeilAndSurplus ==
  pc \in {"place", "rebuild", "done"} =>
    \A k \in 1..Len(self_blocks) :
       LET nparts == ProdSeq(repeat)
           count == self_blocks[k].count
           c == ReplicasOf(k)
       IN  /\ c * nparts >= count
           /\ (c - 1) * nparts < count
           /\ surplus[k] = nparts * c - count
           /\ 0 <= surplus[k] /\ surplus[k] < nparts
           /\ surplus[k] <= nparts * c

C15_Witness ==
  /\ pc = "place"
  /\ ProdSeq(repeat) = 2
  /\ Len(self_blocks) = 2
  /\ self_blocks[1].count = 2 /\ self_blocks[2].count = 3
  /\ ReplicasOf(1) = 1 /\ ReplicasOf(2) = 2
  /\ surplus = <<0, 1>>

\* The numerator of the cumulative probability of the first k entries
\* of a split table, and the first entry whose cumulative probability
\* exceeds r / 4.
CumNum(splits, k) == SumSeq([j \in 1..k |-> splits[j].num])
Exceeds(splits, k, r) == 4 * CumNum(splits, k) > r * splits[k].den
FirstExceeding(splits, r) ==
  splits[CHOOSE k \in 1..Len(splits) :
           Exceeds(splits, k, r) /\ \A j \in 1..(k - 1) : ~Exceeds(splits, j, r)].split

\* C16: the split selected is, for some draw r, the first of the table
\* whose cumulative probability exceeds r; it never has the weight zero;
\* and every split of the table is selected for the draws of an interval
\* as long as its probability (of the 4 draws k/4, for 4 * probability).
C16_SplitSelection ==
  [][(pc = "ready" /\ pc' # "ready") =>
       /\ \E r \in RandVals : split' = FirstExceeding(self_splits, r)
       /\ \A k \in 1..Len(self_splits) :
            self_splits[k].num = 0 => split' # self_splits[k].split
       /\ \A k \in 1..Len(self_splits) :
            Cardinality({r \in RandVals :
                           SelectSplit(self_splits, r, 1, 0) = self_splits[k].split})
              * self_splits[k].den = 4 * self_splits[k].num]_vars

\* C17: the repeat vector has three entries; the factors of the selected
\* split sit in as many distinct directions, factor a in the a-th
\* direction drawn, every other direction has the factor 1, and the
\* number of subcells is the product of the factors of the split.
C17_RepeatVector ==
  pc \in {"sample", "expand", "place", "rebuild", "done"} =>
    /\ Len(repeat) = 3
    /\ \E dirs \in [1..Len(split) -> 1..3] :
         /\ \A a, b \in 1..Len(split) : a # b => dirs[a] # dirs[b]
         /\ \A a \in 1..Len(split) : repeat[dirs[a]] = split[a]
         /\ \A d \in 1..3 : (\A a \in 1..Len(split) : dirs[a] # d) => repeat[d] = 1
    /\ ProdSeq(repeat) = ProdSeq(split)

C17_Witness ==
  /\ pc = "place"
  /\ split = <<2, 2>>
  /\ repeat = <<2, 1, 2>>

\* C18: the split table of a constructed object has the keys of the
\* mapping supplied, in their order; every probability is the weight
\* divided by the sum of the weights and the probabilities sum to 1.  With
\* the default mapping the table is (1,) with probability 1, every call
\* has the repeat vector (1, 1, 1), one subcell, and no surplus.
C18_Normalized ==
  Constructed =>
    LET tot == SumSeq([k \in 1..Len(args.splits) |-> args.splits[k].w])
    IN  /\ Len(self_splits) = Len(args.splits)
        /\ \A k \in 1..Len(self_splits) :
             /\ self_splits[k].split = args.splits[k].split
             /\ self_splits[k].num * tot = args.splits[k].w * self_splits[k].den
             /\ self_splits[k].den = self_splits[1].den
        /\ SumSeq([k \in 1..Len(self_splits) |-> self_splits[k].num]) = self_splits[1].den
        /\ args.splits = <<[split |-> <<1>>, w |-> 1]>> =>
             /\ self_splits = <<[split |-> <<1>>, num |-> 1, den |-> 1]>>
             /\ pc \in {"sample", "expand", "place", "rebuild", "done"} =>
                  (repeat = <<1, 1, 1>> /\ ProdSeq(repeat) = 1)
             /\ pc \in {"place", "rebuild", "done"} =>
                  \A k \in 1..Len(surplus) : surplus[k] = 0

C18_Witness ==
  /\ pc = "place"
  /\ args.splits = Split13
  /\ self_splits[2].num = 3 /\ self_splits[2].den = 4
  /\ split = <<2>>

\* C19: without a fixed cell the sampling loop is left only with a
\* subcell whose three vectors are at least blminmax long and, with
\* cellbounds configured, whose full cell is within the bounds; a cell
\* that fails a test is not kept.
C19_LoopExitsValid ==
  (pc \in {"expand", "place", "rebuild", "done"} /\ ~self_cell.on) =>
     /\ ~nan
     /\ \A d \in 1..3 : Norm2(cell[d]) >= Blminmax(self_blmin) * Blminmax(self_blmin)
     /\ full_cell = FullCell(repeat, cell)
     /\ self_cellbounds.on => is_within_bounds(self_cellbounds, full_cell, nan)

\* C20: a step of the placement loop either leaves the subcell structure
\* as it is (the attempt is rejected) or appends the instance to it, and
\* then all pairs of atoms with different tags of the subcell structure
\* are at least their blmin entry apart, periodic images of the subcell
\* included.
C20_PlacementInvariant ==
  [][(pc = "place" /\ pc' \in {"place", "rebuild"}) =>
       \/ cand' = cand
       \/ /\ Len(cand') > Len(cand)
          /\ SubSeq(cand', 1, Len(cand)) = cand
          /\ \A a \in (Len(cand) + 1)..Len(cand') : cand'[a].tag = i - 1
          /\ (\E a, b \in 1..Len(cand') : cand'[a].tag # cand'[b].tag) => ~nan
          /\ DistancesKept(cand', cell, self_blmin)]_vars

\* C21: after the shuffle the list of block instances and the list of
\* block indices agree position by position; they are as long as the sum
\* of the replica counts; and every block type occurs ceil(count / nparts)
\* times, the least number that times nparts reaches its count.
C21_ShuffleConsistent ==
  pc \in {"place", "rebuild", "done"} =>
    LET nparts == ProdSeq(repeat)
    IN  /\ Len(flat_blocks) = Len(indices)
        /\ \A k \in 1..Len(indices) : flat_blocks[k] = self_blocks[indices[k]].block
        /\ Len(indices) = SumSeq([k \in 1..Len(self_blocks) |-> ReplicasOf(k)])
        /\ \A k \in 1..Len(self_blocks) :
             /\ ReplicasOf(k) * nparts >= self_blocks[k].count
             /\ (ReplicasOf(k) - 1) * nparts < self_blocks[k].count

C21_Witness ==
  /\ pc = "place"
  /\ Len(self_blocks) = 2
  /\ Len(indices) = 3
  /\ indices = <<2, 1, 2>>
  /\ Len(flat_blocks[1].nums) = 2

\* Image and subcell atom of the j-th atom of the repeated structure.
ImageOf(j) == (j - 1) \div Len(cand)
SubcellAtom(j) == cand[((j - 1) % Len(cand)) + 1]

\* C22: in the repeated structure the atoms of image m of the subcell
\* instance t carry the tag t + m * N_blocks; the nrep * N_blocks
\* instances have the tags 0 .. nrep * N_blocks - 1, all different; atoms
\* with one tag are of one instance of one image; and the block type
\* that indices_full gives for a tag is the type of its instance.
C22_UniqueTags ==
  cand_full # <<>> =>
    LET N == Len(indices)
        nrep == ProdSeq(repeat)
    IN  /\ Len(cand_full) = nrep * Len(cand)
        /\ \A j \in 1..Len(cand_full) :
             cand_full[j].tag = SubcellAtom(j).tag + ImageOf(j) * N
        /\ TagsOf(cand_full) = 0..(nrep * N - 1)
        /\ \A j1, j2 \in 1..Len(cand_full) :
             cand_full[j1].tag = cand_full[j2].tag =>
               (ImageOf(j1) = ImageOf(j2) /\ SubcellAtom(j1).tag = SubcellAtom(j2).tag)
        /\ \A t \in TagsOf(cand_full) :
             NumsOfTag(cand_full, t) = self_blocks[TypeOf(t)].block.nums

C22_Witness ==
  /\ pc = "done"
  /\ ProdSeq(repeat) = 2
  /\ Len(indices) = 3
  /\ Len(cand_full) = 10
  /\ Cardinality(TagsOf(cand_full)) = 6

\* The atoms of a structure that carry tag t, in the structure's order.
AtomsOfTag(s, t) == SelectSeq(s, LAMBDA a : a.tag = t)

\* C23: once the structure is rebuilt, for every block type k exactly
\* surplus[k] different instances of the repeated structure were
\* discarded, all of type k; every other instance is retained exactly
\* once, whole, with the numbers of its block in the block's order and
\* the positions it has in the repeated structure; and the assertion of
\* line 222 did not fail.
C23_SurplusRemoval ==
  /\ cand_full # <<>> => pc \in {"done", "changed"}
  /\ pc = "done" =>
       /\ \A k \in 1..Len(self_blocks) :
            /\ Cardinality(bad_tags[k]) = surplus[k]
            /\ \A t \in bad_tags[k] : t \in TagsOf(cand_full) /\ TypeOf(t) = k
       /\ \A t \in TagsOf(cand_full) :
            Cardinality({j \in 1..Len(result.origin) : result.origin[j] = t})
              = IF \E k \in 1..Len(self_blocks) : t \in bad_tags[k] THEN 0 ELSE 1
       /\ \A j \in 1..Len(result.origin) :
            LET new == AtomsOfTag(result.atoms, j - 1)
                old == AtomsOfTag(cand_full, result.origin[j])
            IN  /\ [a \in 1..Len(new) |-> new[a].num]
                     = self_blocks[TypeOf(result.origin[j])].block.nums
                /\ [a \in 1..Len(new) |-> new[a].pos] = [a \in 1..Len(old) |-> old[a].pos]
       /\ TagsOf(result.atoms) = 0..(Len(result.origin) - 1)

C23_Witness ==
  /\ pc = "done"
  /\ Len(self_blocks) = 2
  /\ surplus = <<0, 1>>
  /\ Cardinality(bad_tags[2]) = 1
  /\ Len(result.origin) = 5
  /\ \E j \in 1..Len(result.origin) : Len(AtomsOfTag(result.atoms, j - 1)) = 2

\* Block type of the a-th atom of the returned structure.
BlockTypeOfAtom(a) == TypeOf(result.origin[result.atoms[a].tag + 1])

\* C24: along the atom list of the returned structure the tags start at
\* 0, never decrease, rise by at most one from an atom to the next and
\* end at M - 1, M being the sum of the configured counts (so the atoms
\* of an instance are contiguous), and the block types of the atoms
\* never decrease (all instances of type i before those of type j > i).
C24_SortedByBlock ==
  pc = "done" =>
    LET n == Len(result.atoms)
        M == SumSeq([k \in 1..Len(self_blocks) |-> self_blocks[k].count])
    IN  /\ n > 0
        /\ result.atoms[1].tag = 0
        /\ result.atoms[n].tag = M - 1
        /\ \A a \in 1..(n - 1) : result.atoms[a + 1].tag - result.atoms[a].tag \in {0, 1}
        /\ \A a, b \in 1..n : a < b => BlockTypeOfAtom(a) <= BlockTypeOfAtom(b)

C24_Witness ==
  /\ pc = "done"
  /\ Len(self_blocks) = 2
  /\ indices = <<2, 1, 2>>
  /\ ProdSeq(repeat) = 2
  /\ [a \in 1..Len(result.atoms) |-> result.atoms[a].tag] = <<0, 1, 2, 2, 3, 3, 4, 4>>

\* C25: within a call the instances enter the subcell structure in the
\* shuffled order, one whole instance per accepted attempt, each once;
\* what is already in the subcell structure is never removed, moved or
\* started again, neither by a rejected attempt nor by the rebuild, and
\* the shuffled lists stay as they are.
C25_PlacedOnce ==
  [][(pc \in {"place", "rebuild"} /\ pc' \in {"place", "rebuild", "done"}) =>
       /\ indices' = indices /\ flat_blocks' = flat_blocks
       /\ Len(cand') >= Len(cand)
       /\ SubSeq(cand', 1, Len(cand)) = cand
       /\ cand' # cand =>
            /\ pc = "place"
            /\ Len(cand') = Len(cand) + Len(flat_blocks[i].nums)
            /\ \A a \in (Len(cand) + 1)..Len(cand') :
                 /\ cand'[a].tag = i - 1
                 /\ cand'[a].num = flat_blocks[i].nums[a - Len(cand)]
            /\ IF i < Len(indices) THEN pc' = "place" /\ i' = i + 1 ELSE pc' = "rebuild"
       /\ cand' = cand => i' = i
       /\ TagsOf(cand') = 0..((IF pc' = "place" THEN i' - 1 ELSE Len(indices)) - 1)
       /\ \A t \in TagsOf(cand') : NumsOfTag(cand', t) = flat_blocks[t + 1].nums]_vars

C25_Witness ==
  /\ pc = "rebuild"
  /\ indices = <<2, 1, 2>>
  /\ Len(cand) = 5
  /\ [a \in 1..Len(cand) |-> cand[a].tag] = <<0, 0, 1, 2, 2>>

\* The values call c has consumed from stream s, as positions of s.
Consumed(c, s) ==
  Flatten([j \in 1..Len(took[c]) |->
             IF took[c][j].stream = s
             THEN [v \in 1..took[c][j].n |-> took[c][j].first + v - 1]
             ELSE <<>>])

\* C26: whatever the interleaving of two calls on two generators, the
\* values a call consumes of a stream are those it would consume alone:
\* the values that follow its first one, none of them taken by the other
\* call.
C26_NoInterleavedDraws ==
  \A c \in Callers, s \in Streams :
     \A j \in 1..Len(Consumed(c, s)) : Consumed(c, s)[j] = Consumed(c, s)[1] + j - 1

\* C7: no object is constructed with a distance table that lacks a pair
\* of the atomic numbers of its blocks.
C7_TableComplete == Constructed => RequiredPairs(self_blocks) \subseteq DOMAIN self_blmin

\* C8: no object is constructed with a volume that is not positive.
C8_VolumePositive == Constructed => self_volume.v > 0

\* C9: every constructed object's split probabilities are non-negative
\* and not all zero.
C9_SplitProbabilities ==
  Constructed =>
    /\ \A k \in 1..Len(self_splits) : self_splits[k].num >= 0
    /\ \E k \in 1..Len(self_splits) : self_splits[k].num > 0

\* C10: every call of get_new_candidate ends, returning or raising.
C10_CallEnds == (pc \in {"sample", "expand", "place", "rebuild"}) ~> (pc \in {"done", "raised"})
====
